---- MODULE Spec2Model ----
(***************************************************************************)
(* SceneManager (Source/SceneManager.cpp): the texture registry, the       *)
(* material registry, the shader-uniform helpers and the PrepareScene /    *)
(* RenderScene walk of the turntable scene.                                *)
(*                                                                         *)
(* Numbers that are floats in the source are kept as integers in           *)
(* thousandths (0.55f is 550).  A decoded image is represented by its      *)
(* channel count; 0 stands for stbi_load returning NULL.                   *)
(***************************************************************************)
EXTENDS Integers, Sequences, FiniteSets, TLC

VARIABLES
  m_pShaderManager,   \* "NULL" or "shader": the pointer the constructor stores
  m_loadedTextures,   \* number of registered textures
  m_textureIDs,       \* the array of {tag, ID}, indexed from 0
  m_objectMaterials,  \* std::vector<OBJECT_MATERIAL>, a sequence
  glTextures,         \* texture objects generated so far; the name is the index
  glActiveUnit,       \* glActiveTexture's current unit
  glUnits,            \* GL_TEXTURE_2D binding of every texture unit
  glDeleted,          \* texture names passed to glDeleteTextures
  stbiFlip,           \* stbi_set_flip_vertically_on_load flag
  stbiLive,           \* decoded image buffers not yet passed to stbi_image_free
  uniforms,           \* shader uniform state: name -> <<>> (never set) or <<value>>
  written,            \* uniform writes <<name, value>> made by the last operation
  lastCall,           \* the last operation: name, arguments and return value
  calls,              \* history of CreateGLTexture calls: tag, channels, result
  oobWrite,           \* a registration wrote past the end of m_textureIDs
  nullDeref,          \* a NULL m_pShaderManager was dereferenced
  pc,                 \* position of the PrepareScene / RenderScene walk
  frame,              \* RenderScene calls completed
  meshes,             \* mesh kinds loaded into m_basicMeshes
  bindCalls,          \* BindGLTextures calls made by the walk
  drawCalls,          \* draw calls made by the walk
  part,               \* calls made for the part being set up, since the last draw
  transparentDrawn,   \* a part with a colour alpha below 1 was drawn in this frame
  firstFrame          \* the uniforms current at each draw call of the first frame

registryVars == <<m_loadedTextures, m_textureIDs>>
glVars == <<glTextures, glActiveUnit, glUnits, glDeleted>>
stbiVars == <<stbiFlip, stbiLive>>
shaderVars == <<uniforms, nullDeref>>
sceneVars == <<pc, frame, meshes, bindCalls, drawCalls, part, transparentDrawn, firstFrame>>

vars == <<m_pShaderManager, m_loadedTextures, m_textureIDs, m_objectMaterials,
          glTextures, glActiveUnit, glUnits, glDeleted, stbiFlip, stbiLive, uniforms,
          written, lastCall, calls, oobWrite, nullDeref,
          pc, frame, meshes, bindCalls, drawCalls, part, transparentDrawn, firstFrame>>

----------------------------------------------------------------------------
\* Bounds of the model

\* CreateGLTexture calls explored by the registry specification
MaxCalls == 3

\* Size of the m_textureIDs array ("There are up to 16 slots")
MaxTextureSlots == 16

\* Tags used as arguments of the registry operations
TagPool == {"Wood", "Glass", "Glossy3"}

\* Channel counts stbi_load can report; 0 is a file that cannot be decoded
ChannelPool == {0, 1, 3, 4}

----------------------------------------------------------------------------
\* Texture registry

NoCall == [op |-> "none", tag |-> "", ret |-> 0, ch |-> 0]

\* A default-constructed TEXTURE_INFO slot
EmptySlot == [tag |-> "", ID |-> 0]

\* m_textureIDs[index]; an index past the array reads whatever lies behind it
TextureAt(ids, index) ==
  IF index \in DOMAIN ids THEN ids[index] ELSE [tag |-> "<out of bounds>", ID |-> 0]

RECURSIVE FindTextureIDFrom(_, _, _, _)
FindTextureIDFrom(ids, loaded, tag, index) ==
  IF index < loaded
    THEN IF TextureAt(ids, index).tag = tag
           THEN TextureAt(ids, index).ID
           ELSE FindTextureIDFrom(ids, loaded, tag, index + 1)
    ELSE -1

FindTextureIDMissFirst(ids, loaded, tag) == FindTextureIDFrom(ids, loaded, tag, 1)

\* int SceneManager::FindTextureID(std::string tag)
FindTextureID(ids, loaded, tag) == FindTextureIDFrom(ids, loaded, tag, 0)

RECURSIVE FindTextureSlotFrom(_, _, _, _)
FindTextureSlotFrom(ids, loaded, tag, index) ==
  IF index < loaded
    THEN IF TextureAt(ids, index).tag = tag
           THEN index
           ELSE FindTextureSlotFrom(ids, loaded, tag, index + 1)
    ELSE -1

FindTextureSlotMissFirst(ids, loaded, tag) == FindTextureSlotFrom(ids, loaded, tag, 1)

\* int SceneManager::FindTextureSlot(std::string tag)
FindTextureSlot(ids, loaded, tag) == FindTextureSlotFrom(ids, loaded, tag, 0)

\* The texture object glGenTextures + glTexParameteri + glTexImage2D +
\* glGenerateMipmap leave behind for an image of ch channels
TextureObject(ch) ==
  [wrapS |-> "GL_REPEAT", wrapT |-> "GL_REPEAT",
   minFilter |-> "GL_LINEAR", magFilter |-> "GL_LINEAR",
   format |-> IF ch = 3 THEN "GL_RGB8" ELSE IF ch = 4 THEN "GL_RGBA8" ELSE "none",
   mipmaps |-> ch \in {3, 4}]

\* Mutant: the entry is written after the counter was advanced
RegisterTextureOffByOne(ids, loaded, tag, textureID) ==
  IF loaded + 1 \in DOMAIN ids
    THEN [ids EXCEPT ![loaded + 1] = [tag |-> tag, ID |-> textureID]]
    ELSE ids

\* Mutant: a tag that is already registered keeps its entry, which takes the
\* new texture
RegisterTextureReplacing(ids, loaded, tag, textureID) ==
  IF FindTextureSlot(ids, loaded, tag) >= 0
    THEN [ids EXCEPT ![FindTextureSlot(ids, loaded, tag)] = [tag |-> tag, ID |-> textureID]]
    ELSE IF loaded \in DOMAIN ids
      THEN [ids EXCEPT ![loaded] = [tag |-> tag, ID |-> textureID]]
      ELSE ids

\* The registry after "m_textureIDs[m_loadedTextures] = {textureID, tag}"
RegisterTexture(ids, loaded, tag, textureID) ==
  IF loaded \in DOMAIN ids
    THEN [ids EXCEPT ![loaded] = [tag |-> tag, ID |-> textureID]]
    ELSE ids

\* The body of CreateGLTexture; decoded is "if (image)", supported is
\* "colorChannels == 3 || colorChannels == 4"
CreateGLTextureBody(tag, ch, decoded, supported) ==
  LET textureID == Len(glTextures) + 1 IN
  /\ stbiFlip' = TRUE
  /\ IF ~decoded
       THEN \* stbi_load returned NULL: "Could not load image", return false
            /\ UNCHANGED <<registryVars, glVars, stbiLive, oobWrite>>
            /\ lastCall' = [op |-> "CreateGLTexture", tag |-> tag, ret |-> FALSE, ch |-> ch]
            /\ calls' = Append(calls, [tag |-> tag, ch |-> ch, ret |-> FALSE])
       ELSE IF supported
         THEN \* upload, mipmaps, stbi_image_free, unbind, register, return true
              /\ glTextures' = Append(glTextures, TextureObject(ch))
              /\ glUnits' = [glUnits EXCEPT ![glActiveUnit] = 0]
              /\ UNCHANGED <<glActiveUnit, glDeleted, stbiLive>>
              /\ m_textureIDs' = RegisterTexture(m_textureIDs, m_loadedTextures, tag, textureID)
              /\ oobWrite' = (oobWrite \/ m_loadedTextures \notin DOMAIN m_textureIDs)
              /\ m_loadedTextures' = m_loadedTextures + 1
              /\ lastCall' = [op |-> "CreateGLTexture", tag |-> tag, ret |-> TRUE, ch |-> ch]
              /\ calls' = Append(calls, [tag |-> tag, ch |-> ch, ret |-> TRUE])
         ELSE \* "Not implemented to handle image with N channels": return false,
              \* with the texture still bound and the image not freed
              /\ glTextures' = Append(glTextures, TextureObject(ch))
              /\ glUnits' = [glUnits EXCEPT ![glActiveUnit] = textureID]
              /\ stbiLive' = stbiLive + 1
              /\ UNCHANGED <<registryVars, glActiveUnit, glDeleted, oobWrite>>
              /\ lastCall' = [op |-> "CreateGLTexture", tag |-> tag, ret |-> FALSE, ch |-> ch]
              /\ calls' = Append(calls, [tag |-> tag, ch |-> ch, ret |-> FALSE])
  /\ written' = <<>>
  /\ UNCHANGED <<m_pShaderManager, m_objectMaterials, shaderVars>>

\* Mutant: the channel-count test is missing, every decoded image is registered
CreateGLTextureAnyChannels(tag, ch) == CreateGLTextureBody(tag, ch, ch # 0, TRUE)

\* Mutant: the registration is not guarded by the decode result
CreateGLTextureNoImageTest(tag, ch) == CreateGLTextureBody(tag, ch, TRUE, ch \in {0, 3, 4})

\* bool SceneManager::CreateGLTexture(const char* filename, std::string tag)
\* ch is what stbi_load decodes from filename
CreateGLTexture(tag, ch) == CreateGLTextureBody(tag, ch, ch # 0, ch \in {3, 4})

\* The operations stop once a NULL pointer was dereferenced
Alive == ~nullDeref

CreateGLTextureCall ==
  /\ Alive
  /\ Len(calls) < MaxCalls
  /\ \E tag \in TagPool, ch \in ChannelPool : CreateGLTexture(tag, ch)
  /\ UNCHANGED sceneVars

RECURSIVE BindLoop(_, _, _, _)
\* the for loop of BindGLTextures from index i on: <<active unit, unit bindings>>
BindLoop(ids, loaded, i, gl) ==
  IF i < loaded
    THEN BindLoop(ids, loaded, i + 1,
                  <<i, [u \in DOMAIN gl[2] \cup {i} |->
                          IF u = i THEN TextureAt(ids, i).ID ELSE gl[2][u]]>>)
    ELSE gl

\* Mutant: the loop stops one entry early
BindAllButLast(ids, loaded, gl) == BindLoop(ids, loaded - 1, 0, gl)

\* for (int i = 0; i < m_loadedTextures; i++) of BindGLTextures
BindAll(ids, loaded, gl) == BindLoop(ids, loaded, 0, gl)

\* void SceneManager::BindGLTextures()
BindGLTextures ==
  LET gl == BindAll(m_textureIDs, m_loadedTextures, <<glActiveUnit, glUnits>>) IN
  /\ glActiveUnit' = gl[1]
  /\ glUnits' = gl[2]
  /\ lastCall' = [op |-> "BindGLTextures", tag |-> "", ret |-> 0, ch |-> 0]
  /\ written' = <<>>
  /\ UNCHANGED <<m_pShaderManager, registryVars, m_objectMaterials, glTextures,
                 glDeleted, stbiVars, shaderVars, calls, oobWrite>>

BindGLTexturesCall == Alive /\ BindGLTextures /\ UNCHANGED sceneVars

\* The texture object behind a name glGenTextures has just generated
GeneratedTexture ==
  [wrapS |-> "none", wrapT |-> "none", minFilter |-> "none", magFilter |-> "none",
   format |-> "none", mipmaps |-> FALSE]

RECURSIVE DestroyLoop(_, _, _, _)
\* the for loop of DestroyGLTextures from i on: "glGenTextures(1,
\* &m_textureIDs[i].ID)" generates a new name and stores it in the entry;
\* reg is <<m_textureIDs, glTextures>>
DestroyLoop(reg, loaded, i, oob) ==
  IF i < loaded
    THEN DestroyLoop(
           <<IF i \in DOMAIN reg[1]
               THEN [reg[1] EXCEPT ![i] = [tag |-> reg[1][i].tag, ID |-> Len(reg[2]) + 1]]
               ELSE reg[1],
             Append(reg[2], GeneratedTexture)>>,
           loaded, i + 1, oob \/ i \notin DOMAIN reg[1])
    ELSE <<reg[1], reg[2], oob>>

\* void SceneManager::DestroyGLTextures()
\* No statement of the class calls glDeleteTextures: glDeleted keeps its value
DestroyGLTextures ==
  LET after == DestroyLoop(<<m_textureIDs, glTextures>>, m_loadedTextures, 0, oobWrite) IN
  /\ m_textureIDs' = after[1]
  /\ glTextures' = after[2]
  /\ oobWrite' = after[3]
  /\ lastCall' = [op |-> "DestroyGLTextures", tag |-> "", ret |-> 0, ch |-> 0,
                  registered |-> {TextureAt(m_textureIDs, i).ID : i \in 0 .. m_loadedTextures - 1},
                  allocated |-> Len(glTextures)]
  /\ written' = <<>>
  /\ UNCHANGED <<m_pShaderManager, m_loadedTextures, m_objectMaterials, glActiveUnit,
                 glUnits, glDeleted, stbiVars, shaderVars, calls>>

\* CreateGLTexture calls explored by the teardown specification, and the
\* texture names the graphics API hands out in it
MaxTeardownCalls == 2
MaxGLNames == 6

TeardownCreateGLTextureCall ==
  /\ Alive
  /\ Len(calls) < MaxTeardownCalls
  /\ \E tag \in TagPool, ch \in ChannelPool : CreateGLTexture(tag, ch)
  /\ UNCHANGED sceneVars

DestroyGLTexturesCall ==
  /\ Alive
  /\ Len(glTextures) + m_loadedTextures <= MaxGLNames
  /\ DestroyGLTextures
  /\ UNCHANGED sceneVars

FindTextureIDCall ==
  \E tag \in TagPool :
    /\ Alive
    /\ UNCHANGED sceneVars
    /\ lastCall' = [op |-> "FindTextureID", tag |-> tag,
                    ret |-> FindTextureID(m_textureIDs, m_loadedTextures, tag), ch |-> 0]
    /\ written' = <<>>
    /\ UNCHANGED <<m_pShaderManager, registryVars, m_objectMaterials, glVars,
                   stbiVars, shaderVars, calls, oobWrite>>

FindTextureSlotCall ==
  \E tag \in TagPool :
    /\ Alive
    /\ UNCHANGED sceneVars
    /\ lastCall' = [op |-> "FindTextureSlot", tag |-> tag,
                    ret |-> FindTextureSlot(m_textureIDs, m_loadedTextures, tag), ch |-> 0]
    /\ written' = <<>>
    /\ UNCHANGED <<m_pShaderManager, registryVars, m_objectMaterials, glVars,
                   stbiVars, shaderVars, calls, oobWrite>>

----------------------------------------------------------------------------
\* Material registry

\* The presets DefineObjectMaterials pushes, in order
DefinedMaterials ==
  <<
    [tag |-> "Wood", ambientColor |-> <<0, 0, 0>>, ambientStrength |-> 500,
     diffuseColor |-> <<100, 100, 100>>, specularColor |-> <<10, 10, 10>>, shininess |-> 10000],
    [tag |-> "Glass", ambientColor |-> <<10, 10, 10>>, ambientStrength |-> 10,
     diffuseColor |-> <<10, 10, 10>>, specularColor |-> <<20, 20, 20>>, shininess |-> 75000],
    [tag |-> "Glass2", ambientColor |-> <<10, 10, 10>>, ambientStrength |-> 10,
     diffuseColor |-> <<10, 10, 10>>, specularColor |-> <<20, 20, 20>>, shininess |-> 10000],
    [tag |-> "Glossy", ambientColor |-> <<10, 10, 10>>, ambientStrength |-> 300,
     diffuseColor |-> <<10, 10, 10>>, specularColor |-> <<20, 20, 20>>, shininess |-> 80000],
    [tag |-> "Glossy2", ambientColor |-> <<10, 10, 10>>, ambientStrength |-> 500,
     diffuseColor |-> <<10, 10, 10>>, specularColor |-> <<80, 80, 80>>, shininess |-> 90000],
    [tag |-> "Super Glossy", ambientColor |-> <<0, 0, 0>>, ambientStrength |-> 500,
     diffuseColor |-> <<0, 0, 0>>, specularColor |-> <<150, 150, 150>>, shininess |-> 90000],
    [tag |-> "No Gloss", ambientColor |-> <<0, 0, 0>>, ambientStrength |-> 0,
     diffuseColor |-> <<0, 0, 0>>, specularColor |-> <<0, 0, 0>>, shininess |-> 0]
  >>

\* An OBJECT_MATERIAL that was declared and never assigned: its numbers are
\* whatever the stack held
IndeterminateMaterials ==
  {[tag |-> "", ambientColor |-> <<g, g, g>>, ambientStrength |-> g,
    diffuseColor |-> <<g, g, g>>, specularColor |-> <<g, g, g>>, shininess |-> g] :
     g \in {-777, 123456}}

\* Tags used as arguments of the material operations ("Brass" is no preset)
MaterialTagPool == {"Wood", "Glass2", "No Gloss", "Brass"}

\* DefineObjectMaterials calls explored by the material specification
MaxDefines == 2

RECURSIVE FindMaterialFrom(_, _, _, _)
\* the while loop of FindMaterial from index on: the caller's material afterwards
FindMaterialFrom(mats, tag, material, index) ==
  IF index < Len(mats)
    THEN IF mats[index + 1].tag = tag
           THEN [material EXCEPT
                   !.ambientColor = mats[index + 1].ambientColor,
                   !.ambientStrength = mats[index + 1].ambientStrength,
                   !.diffuseColor = mats[index + 1].diffuseColor,
                   !.specularColor = mats[index + 1].specularColor,
                   !.shininess = mats[index + 1].shininess]
           ELSE FindMaterialFrom(mats, tag, material, index + 1)
    ELSE material

\* Mutant: the empty-registry test is missing
FindMaterialNoEmptyTest(mats, tag, material) ==
  [ret |-> TRUE, material |-> FindMaterialFrom(mats, tag, material, 0)]

\* bool SceneManager::FindMaterial(std::string tag, OBJECT_MATERIAL& material)
\* ret is the return value, material the caller's object after the call
FindMaterial(mats, tag, material) ==
  IF Len(mats) = 0
    THEN [ret |-> FALSE, material |-> material]
    ELSE [ret |-> TRUE, material |-> FindMaterialFrom(mats, tag, material, 0)]

\* void SceneManager::DefineObjectMaterials()
DefineObjectMaterials ==
  /\ m_objectMaterials' = m_objectMaterials \o DefinedMaterials
  /\ lastCall' = [op |-> "DefineObjectMaterials", tag |-> "", ret |-> 0, ch |-> 0]
  /\ written' = <<>>
  /\ UNCHANGED <<m_pShaderManager, registryVars, glVars, stbiVars, shaderVars,
                 calls, oobWrite>>

DefineObjectMaterialsCall ==
  /\ Alive
  /\ Len(m_objectMaterials) < MaxDefines * Len(DefinedMaterials)
  /\ DefineObjectMaterials
  /\ UNCHANGED sceneVars

FindMaterialCall ==
  \E tag \in MaterialTagPool,
     material \in IndeterminateMaterials \cup {DefinedMaterials[2]} :
    /\ Alive
    /\ lastCall' = [op |-> "FindMaterial", tag |-> tag, ch |-> 0,
                    ret |-> FindMaterial(m_objectMaterials, tag, material).ret,
                    material |-> material,
                    out |-> FindMaterial(m_objectMaterials, tag, material).material]
    /\ written' = <<>>
    /\ UNCHANGED <<m_pShaderManager, registryVars, m_objectMaterials, glVars,
                   stbiVars, shaderVars, calls, oobWrite, sceneVars>>

----------------------------------------------------------------------------
\* Shader uniforms

\* The uniform writes of SetupSceneLights, in order
SceneLightWrites ==
  <<
    <<"lightSources[0].position", <<12000, 15000, 5000>>>>,
    <<"lightSources[0].ambientColor", <<100, 100, 100>>>>,
    <<"lightSources[0].diffuseColor", <<0, 0, 0>>>>,
    <<"lightSources[0].specularColor", <<0, 0, 0>>>>,
    <<"lightSources[0].focalStrength", 32000>>,
    <<"lightSources[0].specularIntensity", 50>>,
    <<"lightSources[1].position", <<6000, 5000, 5000>>>>,
    <<"lightSources[1].ambientColor", <<200, 200, 200>>>>,
    <<"lightSources[1].diffuseColor", <<0, 0, 0>>>>,
    <<"lightSources[1].specularColor", <<0, 0, 0>>>>,
    <<"lightSources[1].focalStrength", 32000>>,
    <<"lightSources[1].specularIntensity", 500>>,
    <<"lightSources[2].position", <<0, 15000, 20000>>>>,
    <<"lightSources[2].ambientColor", <<0, 0, 0>>>>,
    <<"lightSources[2].diffuseColor", <<100, 100, 100>>>>,
    <<"lightSources[2].specularColor", <<0, 0, 0>>>>,
    <<"lightSources[2].focalStrength", 32000>>,
    <<"lightSources[2].specularIntensity", 50>>,
    <<"lightSources[3].position", <<1000, 4000, -5000>>>>,
    <<"lightSources[3].ambientColor", <<300, 300, 300>>>>,
    <<"lightSources[3].diffuseColor", <<0, 0, 0>>>>,
    <<"lightSources[3].specularColor", <<200, 200, 200>>>>,
    <<"lightSources[3].focalStrength", 6000>>,
    <<"lightSources[3].specularIntensity", 800>>,
    <<"bUseLighting", TRUE>>
  >>

UniformNames ==
  {"model", "objectColor", "objectTexture", "bUseTexture", "UVscale",
   "material.ambientColor", "material.ambientStrength", "material.diffuseColor",
   "material.specularColor", "material.shininess"}
  \cup {SceneLightWrites[i][1] : i \in 1 .. Len(SceneLightWrites)}

MaterialUniforms ==
  {"material.ambientColor", "material.ambientStrength", "material.diffuseColor",
   "material.specularColor", "material.shininess"}

RECURSIVE ApplyWrites(_, _)
\* the uniform state after the setter calls ws = << <<name, value>>, ... >>
ApplyWrites(u, ws) ==
  IF ws = <<>>
    THEN u
    ELSE ApplyWrites([u EXCEPT ![ws[1][1]] = <<ws[1][2]>>], Tail(ws))

\* Setter calls behind "if (NULL != m_pShaderManager)"
GuardedWrites(ws) ==
  IF m_pShaderManager = "NULL"
    THEN /\ written' = <<>>
         /\ UNCHANGED shaderVars
    ELSE /\ written' = ws
         /\ uniforms' = ApplyWrites(uniforms, ws)
         /\ UNCHANGED nullDeref

\* Setter calls made through m_pShaderManager without a test
UnguardedWrites(ws) ==
  IF m_pShaderManager = "NULL"
    THEN /\ written' = <<>>
         /\ nullDeref' = TRUE
         /\ UNCHANGED uniforms
    ELSE /\ written' = ws
         /\ uniforms' = ApplyWrites(uniforms, ws)
         /\ UNCHANGED nullDeref

\* Mutant: the factors are multiplied in the opposite order
ModelViewScaleLast(scaleXYZ, Xrot, Yrot, Zrot, positionXYZ) ==
  << <<"scale", scaleXYZ>>, <<"rotateZ", Zrot>>, <<"rotateY", Yrot>>,
     <<"rotateX", Xrot>>, <<"translate", positionXYZ>> >>

\* Mutant: the translation is built from the scale argument
ModelViewTranslateByScale(scaleXYZ, Xrot, Yrot, Zrot, positionXYZ) ==
  << <<"translate", scaleXYZ>>, <<"rotateX", Xrot>>, <<"rotateY", Yrot>>,
     <<"rotateZ", Zrot>>, <<"scale", scaleXYZ>> >>

\* modelView = translation * rotationX * rotationY * rotationZ * scale, kept
\* as the product's factors from left to right
ModelView(scaleXYZ, Xrot, Yrot, Zrot, positionXYZ) ==
  << <<"translate", positionXYZ>>, <<"rotateX", Xrot>>, <<"rotateY", Yrot>>,
     <<"rotateZ", Zrot>>, <<"scale", scaleXYZ>> >>

\* void SceneManager::SetTransformations(scaleXYZ, X, Y, Z, positionXYZ)
SetTransformations(scaleXYZ, Xrot, Yrot, Zrot, positionXYZ) ==
  /\ GuardedWrites(<< <<"model", ModelView(scaleXYZ, Xrot, Yrot, Zrot, positionXYZ)>> >>)
  /\ lastCall' = [op |-> "SetTransformations", tag |-> "", ret |-> 0, ch |-> 0,
                  args |-> <<scaleXYZ, Xrot, Yrot, Zrot, positionXYZ>>]
  /\ UNCHANGED <<m_pShaderManager, registryVars, m_objectMaterials, glVars,
                 stbiVars, calls, oobWrite>>

\* void SceneManager::SetShaderColor(red, green, blue, alpha)
SetShaderColor(currentColor) ==
  /\ GuardedWrites(<< <<"bUseTexture", 0>>, <<"objectColor", currentColor>> >>)
  /\ lastCall' = [op |-> "SetShaderColor", tag |-> "", ret |-> 0, ch |-> 0]
  /\ UNCHANGED <<m_pShaderManager, registryVars, m_objectMaterials, glVars,
                 stbiVars, calls, oobWrite>>

\* Mutant: the sampler is set and the texture flag is left as it was
SetShaderTextureWritesNoFlag(textureID) ==
  << <<"objectTexture", textureID>> >>

\* The setter calls of SetShaderTexture; textureID is FindTextureSlot's result
SetShaderTextureWrites(textureID) ==
  << <<"bUseTexture", 1>>, <<"objectTexture", textureID>> >>

\* void SceneManager::SetShaderTexture(std::string textureTag)
SetShaderTexture(textureTag) ==
  LET textureID == FindTextureSlot(m_textureIDs, m_loadedTextures, textureTag) IN
  /\ GuardedWrites(SetShaderTextureWrites(textureID))
  /\ lastCall' = [op |-> "SetShaderTexture", tag |-> textureTag, ret |-> textureID, ch |-> 0]
  /\ UNCHANGED <<m_pShaderManager, registryVars, m_objectMaterials, glVars,
                 stbiVars, calls, oobWrite>>

\* void SceneManager::SetTextureUVScale(float u, float v)
SetTextureUVScale(u, v) ==
  /\ GuardedWrites(<< <<"UVscale", <<u, v>>>> >>)
  /\ lastCall' = [op |-> "SetTextureUVScale", tag |-> "", ret |-> 0, ch |-> 0]
  /\ UNCHANGED <<m_pShaderManager, registryVars, m_objectMaterials, glVars,
                 stbiVars, calls, oobWrite>>

\* The five setter calls of SetShaderMaterial
MaterialWrites(material) ==
  << <<"material.ambientColor", material.ambientColor>>,
     <<"material.ambientStrength", material.ambientStrength>>,
     <<"material.diffuseColor", material.diffuseColor>>,
     <<"material.specularColor", material.specularColor>>,
     <<"material.shininess", material.shininess>> >>

\* Mutant: a tag that is no preset makes the call define the presets again
SetShaderMaterialDefiningMissing(materialTag) ==
  /\ IF Len(m_objectMaterials) > 0
       THEN \E material \in IndeterminateMaterials :
              LET found == FindMaterial(m_objectMaterials, materialTag, material) IN
              IF found.ret = TRUE
                THEN UnguardedWrites(MaterialWrites(found.material))
                ELSE written' = <<>> /\ UNCHANGED shaderVars
       ELSE written' = <<>> /\ UNCHANGED shaderVars
  /\ m_objectMaterials' =
       IF \E i \in 1 .. Len(m_objectMaterials) : m_objectMaterials[i].tag = materialTag
         THEN m_objectMaterials
         ELSE m_objectMaterials \o DefinedMaterials
  /\ lastCall' = [op |-> "SetShaderMaterial", tag |-> materialTag, ret |-> 0, ch |-> 0]
  /\ UNCHANGED <<m_pShaderManager, registryVars, glVars, stbiVars, calls, oobWrite>>

\* void SceneManager::SetShaderMaterial(std::string materialTag)
\* The local "OBJECT_MATERIAL material" starts indeterminate
SetShaderMaterial(materialTag) ==
  /\ IF Len(m_objectMaterials) > 0
       THEN \E material \in IndeterminateMaterials :
              LET found == FindMaterial(m_objectMaterials, materialTag, material) IN
              IF found.ret = TRUE
                THEN UnguardedWrites(MaterialWrites(found.material))
                ELSE written' = <<>> /\ UNCHANGED shaderVars
       ELSE written' = <<>> /\ UNCHANGED shaderVars
  /\ lastCall' = [op |-> "SetShaderMaterial", tag |-> materialTag, ret |-> 0, ch |-> 0]
  /\ UNCHANGED <<m_pShaderManager, registryVars, m_objectMaterials, glVars,
                 stbiVars, calls, oobWrite>>

\* void SceneManager::SetupSceneLights()
SetupSceneLights ==
  /\ UnguardedWrites(SceneLightWrites)
  /\ lastCall' = [op |-> "SetupSceneLights", tag |-> "", ret |-> 0, ch |-> 0]
  /\ UNCHANGED <<m_pShaderManager, registryVars, m_objectMaterials, glVars,
                 stbiVars, calls, oobWrite>>

\* 4x4 matrices in thousandths, as rows; angles are right angles in
\* thousandths of a degree, whose sine and cosine are whole numbers
Identity ==
  << <<1000, 0, 0, 0>>, <<0, 1000, 0, 0>>, <<0, 0, 1000, 0>>, <<0, 0, 0, 1000>> >>

CosOf(a) == IF a = 0 THEN 1000 ELSE IF a \in {90000, -90000} THEN 0 ELSE -1000
SinOf(a) == IF a = 90000 THEN 1000 ELSE IF a = -90000 THEN -1000 ELSE 0

\* glm::scale(v), glm::translate(v), glm::rotate(glm::radians(a), axis)
ScaleMatrix(v) ==
  << <<v[1], 0, 0, 0>>, <<0, v[2], 0, 0>>, <<0, 0, v[3], 0>>, <<0, 0, 0, 1000>> >>

TranslateMatrix(v) ==
  << <<1000, 0, 0, v[1]>>, <<0, 1000, 0, v[2]>>, <<0, 0, 1000, v[3]>>, <<0, 0, 0, 1000>> >>

RotateXMatrix(a) ==
  << <<1000, 0, 0, 0>>, <<0, CosOf(a), -SinOf(a), 0>>,
     <<0, SinOf(a), CosOf(a), 0>>, <<0, 0, 0, 1000>> >>

RotateYMatrix(a) ==
  << <<CosOf(a), 0, SinOf(a), 0>>, <<0, 1000, 0, 0>>,
     <<-SinOf(a), 0, CosOf(a), 0>>, <<0, 0, 0, 1000>> >>

RotateZMatrix(a) ==
  << <<CosOf(a), -SinOf(a), 0, 0>>, <<SinOf(a), CosOf(a), 0, 0>>,
     <<0, 0, 1000, 0>>, <<0, 0, 0, 1000>> >>

\* glm's operator* on mat4
Mul(A, B) ==
  [i \in 1 .. 4 |-> [j \in 1 .. 4 |->
     (A[i][1] * B[1][j] + A[i][2] * B[2][j] + A[i][3] * B[3][j] + A[i][4] * B[4][j])
       \div 1000]]

FactorMatrix(f) ==
  IF f[1] = "translate" THEN TranslateMatrix(f[2])
  ELSE IF f[1] = "rotateX" THEN RotateXMatrix(f[2])
  ELSE IF f[1] = "rotateY" THEN RotateYMatrix(f[2])
  ELSE IF f[1] = "rotateZ" THEN RotateZMatrix(f[2])
  ELSE ScaleMatrix(f[2])

RECURSIVE MatrixOf(_)
\* the matrix a product of factors evaluates to
MatrixOf(product) ==
  IF product = <<>> THEN Identity
  ELSE Mul(FactorMatrix(product[1]), MatrixOf(Tail(product)))

\* Arguments of SetTransformations: whole-number scales and positions, right
\* angles
ScalePool == {<<1000, 1000, 1000>>, <<2000, 1000, 3000>>}
AnglePool == {0, 90000, -90000}
PositionPool == {<<0, 0, 0>>, <<1000, -2000, 3000>>}

SetTransformationsCall ==
  \E scaleXYZ \in ScalePool, Xrot \in AnglePool, Yrot \in AnglePool,
     Zrot \in AnglePool, positionXYZ \in PositionPool :
    /\ Alive
    /\ SetTransformations(scaleXYZ, Xrot, Yrot, Zrot, positionXYZ)
    /\ UNCHANGED sceneVars

\* Colours used as arguments of SetShaderColor: opaque and partly transparent
ColorPool == {<<100, 100, 100, 1000>>, <<1000, 1000, 1000, 550>>}

\* CreateGLTexture calls explored by the shader specification
MaxShaderCalls == 2

SetShaderMaterialCall ==
  \E tag \in MaterialTagPool :
    Alive /\ SetShaderMaterial(tag) /\ UNCHANGED sceneVars

SetShaderTextureCall ==
  \E tag \in TagPool :
    Alive /\ SetShaderTexture(tag) /\ UNCHANGED sceneVars

SetShaderColorCall ==
  \E currentColor \in ColorPool :
    Alive /\ SetShaderColor(currentColor) /\ UNCHANGED sceneVars

ShaderCreateGLTextureCall ==
  /\ Alive
  /\ Len(calls) < MaxShaderCalls
  /\ \E tag \in TagPool, ch \in ChannelPool : CreateGLTexture(tag, ch)
  /\ UNCHANGED sceneVars

----------------------------------------------------------------------------
\* PrepareScene and RenderScene

\* The files and tags of LoadSceneTextures, in order
SceneTextures ==
  <<
    [filename |-> "../../Utilities/MY_textures/FrontCover.jpg", tag |-> "Front Cover"],
    [filename |-> "../../Utilities/MY_textures/Glass.jpg", tag |-> "Glass"],
    [filename |-> "../../Utilities/MY_textures/Glass2.jpg", tag |-> "Glass2"],
    [filename |-> "../../Utilities/MY_textures/Wood.jpg", tag |-> "Wood"],
    [filename |-> "../../Utilities/MY_textures/Black.jpg", tag |-> "Black"],
    [filename |-> "../../Utilities/MY_textures/Chrome.jpg", tag |-> "Chrome"],
    [filename |-> "../../Utilities/MY_Textures/Grey.jpg", tag |-> "Grey"],
    [filename |-> "../../Utilities/MY_textures/BackCover.jpg", tag |-> "Back Cover"],
    [filename |-> "../../Utilities/MY_Textures/Modern.jpg", tag |-> "Modern"],
    [filename |-> "../../Utilities/MY_Textures/Brass.jpg", tag |-> "Brass"]
  >>

\* The mesh kinds PrepareScene loads, in order
SceneMeshes == 
  <<"PlaneMesh", "BoxMesh", "CylinderMesh", "Pyramid4Mesh", "SphereMesh",
    "TorusMesh", "ConeMesh", "PrismMesh">>

\* RenderScene calls explored by the scene specification
MaxFrames == 2

\* Texture files of the scene that do not decode as 3-channel images
MaxOddFiles == 1

\* Mutant: BindGLTextures is called before the textures are created
LoadSceneTexturesBindFirst ==
  <<[op |-> "BindGLTextures", line |-> 393, tag |-> "", vec |-> <<>>]>>
  \o [i \in 1 .. Len(SceneTextures) |->
        [op |-> "CreateGLTexture", line |-> 349 + 4 * i, tag |-> SceneTextures[i].tag, vec |-> <<>>]]

\* void SceneManager::LoadSceneTextures(): its calls in order
LoadSceneTexturesCalls ==
  [i \in 1 .. Len(SceneTextures) |->
     [op |-> "CreateGLTexture", line |-> 349 + 4 * i, tag |-> SceneTextures[i].tag, vec |-> <<>>]]
  \o <<[op |-> "BindGLTextures", line |-> 393, tag |-> "", vec |-> <<>>]>>

\* void SceneManager::PrepareScene(): its calls in order
PrepareSceneCalls ==
  LoadSceneTexturesCalls
  \o <<[op |-> "DefineObjectMaterials", line |-> 569, tag |-> "", vec |-> <<>>],
       [op |-> "SetupSceneLights", line |-> 571, tag |-> "", vec |-> <<>>]>>
  \o [i \in 1 .. Len(SceneMeshes) |->
        [op |-> "LoadMesh", line |-> 576 + i, tag |-> SceneMeshes[i], vec |-> <<>>]]

\* void SceneManager::RenderScene(): its calls in order.  vec holds the
\* arguments: scale, the X, Y, Z rotations and the position of
\* SetTransformations; red, green, blue, alpha of SetShaderColor.  The tag of
\* a draw call is the name of the part.
RenderSceneCalls ==
  <<
    [op |-> "SetTransformations", line |-> 619, tag |-> "", vec |-> <<14000, 1000, 7000, 0, 0, 0, 0, -499, -5000>>],
    [op |-> "SetShaderTexture", line |-> 627, tag |-> "Wood", vec |-> <<>>],
    [op |-> "SetShaderMaterial", line |-> 628, tag |-> "Wood", vec |-> <<>>],
    [op |-> "DrawPlaneMesh", line |-> 630, tag |-> "Wooden Table", vec |-> <<>>],
    [op |-> "SetTransformations", line |-> 645, tag |-> "", vec |-> <<14000, 500, 10000, 0, 0, 0, 0, 0, -5000>>],
    [op |-> "SetShaderColor", line |-> 652, tag |-> "", vec |-> <<100, 100, 100, 1000>>],
    [op |-> "SetShaderTexture", line |-> 653, tag |-> "Black", vec |-> <<>>],
    [op |-> "SetShaderMaterial", line |-> 654, tag |-> "Glossy2", vec |-> <<>>],
    [op |-> "DrawBoxMesh", line |-> 656, tag |-> "Base of turntable", vec |-> <<>>],
    [op |-> "SetTransformations", line |-> 671, tag |-> "", vec |-> <<700, 400, 700, 0, 0, 0, -5000, -480, -1800>>],
    [op |-> "SetShaderColor", line |-> 678, tag |-> "", vec |-> <<100, 100, 100, 1000>>],
    [op |-> "SetShaderTexture", line |-> 679, tag |-> "Black", vec |-> <<>>],
    [op |-> "DrawCylinderMesh", line |-> 682, tag |-> "Front left foot", vec |-> <<>>],
    [op |-> "SetTransformations", line |-> 697, tag |-> "", vec |-> <<700, 400, 700, 0, 0, 0, -5000, -480, -8000>>],
    [op |-> "SetShaderColor", line |-> 704, tag |-> "", vec |-> <<100, 100, 100, 1000>>],
    [op |-> "SetShaderTexture", line |-> 705, tag |-> "Black", vec |-> <<>>],
    [op |-> "DrawCylinderMesh", line |-> 708, tag |-> "Back left foot", vec |-> <<>>],
    [op |-> "SetTransformations", line |-> 723, tag |-> "", vec |-> <<700, 400, 700, 0, 0, 0, 4600, -480, -1800>>],
    [op |-> "SetShaderColor", line |-> 730, tag |-> "", vec |-> <<100, 100, 100, 1000>>],
    [op |-> "SetShaderTexture", line |-> 731, tag |-> "Black", vec |-> <<>>],
    [op |-> "DrawCylinderMesh", line |-> 734, tag |-> "Front right foot", vec |-> <<>>],
    [op |-> "SetTransformations", line |-> 749, tag |-> "", vec |-> <<700, 400, 700, 0, 0, 0, 4600, -480, -8000>>],
    [op |-> "SetShaderColor", line |-> 756, tag |-> "", vec |-> <<100, 100, 100, 1000>>],
    [op |-> "SetShaderTexture", line |-> 757, tag |-> "Black", vec |-> <<>>],
    [op |-> "DrawCylinderMesh", line |-> 760, tag |-> "Back right foot", vec |-> <<>>],
    [op |-> "SetTransformations", line |-> 775, tag |-> "", vec |-> <<4700, 200, 4700, 0, 0, 0, -1900, 500, -5000>>],
    [op |-> "SetShaderColor", line |-> 782, tag |-> "", vec |-> <<600, 750, 700, 400>>],
    [op |-> "SetShaderTexture", line |-> 783, tag |-> "Glass", vec |-> <<>>],
    [op |-> "SetShaderMaterial", line |-> 784, tag |-> "Glass", vec |-> <<>>],
    [op |-> "DrawCylinderMesh", line |-> 786, tag |-> "Platter", vec |-> <<>>],
    [op |-> "SetTransformations", line |-> 802, tag |-> "", vec |-> <<1400, 200, 1400, 0, 0, 0, -1900, 300, -5000>>],
    [op |-> "SetShaderColor", line |-> 809, tag |-> "", vec |-> <<200, 200, 200, 1000>>],
    [op |-> "DrawCylinderMesh", line |-> 812, tag |-> "Motor under platter", vec |-> <<>>],
    [op |-> "SetTransformations", line |-> 827, tag |-> "", vec |-> <<300, 100, 300, 0, 0, 0, -1900, 650, -5000>>],
    [op |-> "SetShaderColor", line |-> 834, tag |-> "", vec |-> <<0, 0, 0, 1000>>],
    [op |-> "DrawCylinderMesh", line |-> 837, tag |-> "Spindle base", vec |-> <<>>],
    [op |-> "SetTransformations", line |-> 852, tag |-> "", vec |-> <<80, 300, 80, 0, 0, 0, -1900, 650, -5000>>],
    [op |-> "SetShaderColor", line |-> 859, tag |-> "", vec |-> <<700, 700, 700, 1000>>],
    [op |-> "DrawCylinderMesh", line |-> 862, tag |-> "Spindle", vec |-> <<>>],
    [op |-> "SetTransformations", line |-> 877, tag |-> "", vec |-> <<110, 20, 110, 0, 0, 0, -6400, 250, -500>>],
    [op |-> "SetShaderColor", line |-> 884, tag |-> "", vec |-> <<359, 359, 359, 1000>>],
    [op |-> "DrawCylinderMesh", line |-> 887, tag |-> "Motor speed button [base]", vec |-> <<>>],
    [op |-> "SetTransformations", line |-> 902, tag |-> "", vec |-> <<50, 50, 50, 0, 0, 0, -6400, 250, -500>>],
    [op |-> "SetShaderColor", line |-> 909, tag |-> "", vec |-> <<300, 300, 300, 1000>>],
    [op |-> "DrawCylinderMesh", line |-> 912, tag |-> "Motor speed button", vec |-> <<>>],
    [op |-> "SetTransformations", line |-> 927, tag |-> "", vec |-> <<150, 7600, 150, 90000, 0, 0, 3800, 1000, -8800>>],
    [op |-> "SetShaderColor", line |-> 934, tag |-> "", vec |-> <<300, 300, 300, 1000>>],
    [op |-> "SetShaderMaterial", line |-> 936, tag |-> "Glossy2", vec |-> <<>>],
    [op |-> "DrawCylinderMesh", line |-> 938, tag |-> "Tone arm", vec |-> <<>>],
    [op |-> "SetTransformations", line |-> 953, tag |-> "", vec |-> <<800, 100, 800, 0, 0, 0, 3800, 300, -6900>>],
    [op |-> "SetShaderColor", line |-> 960, tag |-> "", vec |-> <<300, 300, 300, 1000>>],
    [op |-> "SetShaderMaterial", line |-> 961, tag |-> "Glossy2", vec |-> <<>>],
    [op |-> "DrawCylinderMesh", line |-> 963, tag |-> "Tone arm base [lower]", vec |-> <<>>],
    [op |-> "SetTransformations", line |-> 978, tag |-> "", vec |-> <<450, 150, 700, 0, 0, 0, 3800, 400, -6900>>],
    [op |-> "SetShaderColor", line |-> 985, tag |-> "", vec |-> <<350, 350, 350, 1000>>],
    [op |-> "SetShaderMaterial", line |-> 986, tag |-> "Glossy2", vec |-> <<>>],
    [op |-> "DrawCylinderMesh", line |-> 988, tag |-> "Tone arm base [upper]", vec |-> <<>>],
    [op |-> "SetTransformations", line |-> 1003, tag |-> "", vec |-> <<100, 400, 100, 0, 0, 0, 3800, 300, -7200>>],
    [op |-> "SetShaderColor", line |-> 1010, tag |-> "", vec |-> <<400, 400, 400, 1000>>],
    [op |-> "SetShaderMaterial", line |-> 1011, tag |-> "Glossy2", vec |-> <<>>],
    [op |-> "DrawCylinderMesh", line |-> 1013, tag |-> "Tone arm support [rear]", vec |-> <<>>],
    [op |-> "SetTransformations", line |-> 1028, tag |-> "", vec |-> <<100, 600, 100, 0, 0, 0, 3800, 300, -6500>>],
    [op |-> "SetShaderColor", line |-> 1035, tag |-> "", vec |-> <<400, 400, 400, 1000>>],
    [op |-> "SetShaderMaterial", line |-> 1036, tag |-> "Glossy2", vec |-> <<>>],
    [op |-> "DrawCylinderMesh", line |-> 1038, tag |-> "Tone arm support [near]", vec |-> <<>>],
    [op |-> "SetTransformations", line |-> 1053, tag |-> "", vec |-> <<400, 700, 400, 90000, 0, 0, 3800, 1000, -7500>>],
    [op |-> "SetShaderColor", line |-> 1060, tag |-> "", vec |-> <<400, 400, 400, 1000>>],
    [op |-> "SetShaderMaterial", line |-> 1061, tag |-> "Glossy", vec |-> <<>>],
    [op |-> "DrawCylinderMesh", line |-> 1063, tag |-> "Tone weight [near]", vec |-> <<>>],
    [op |-> "SetTransformations", line |-> 1078, tag |-> "", vec |-> <<500, 450, 500, 90000, 0, 0, 3800, 900, -8350>>],
    [op |-> "SetShaderColor", line |-> 1085, tag |-> "", vec |-> <<400, 400, 400, 1000>>],
    [op |-> "SetShaderMaterial", line |-> 1086, tag |-> "Glossy", vec |-> <<>>],
    [op |-> "DrawCylinderMesh", line |-> 1088, tag |-> "Tone weight [rear]", vec |-> <<>>],
    [op |-> "SetTransformations", line |-> 1103, tag |-> "", vec |-> <<50, 2000, 35, 90000, 0, 0, 3800, 450, -6500>>],
    [op |-> "SetShaderColor", line |-> 1110, tag |-> "", vec |-> <<350, 350, 350, 1000>>],
    [op |-> "SetShaderMaterial", line |-> 1111, tag |-> "Glossy2", vec |-> <<>>],
    [op |-> "DrawCylinderMesh", line |-> 1113, tag |-> "Tone arm rest [horizontal]", vec |-> <<>>],
    [op |-> "SetTransformations", line |-> 1128, tag |-> "", vec |-> <<50, 450, 35, 0, 90000, 0, 3800, 417, -4520>>],
    [op |-> "SetShaderColor", line |-> 1135, tag |-> "", vec |-> <<350, 350, 350, 1000>>],
    [op |-> "SetShaderMaterial", line |-> 1136, tag |-> "Glossy2", vec |-> <<>>],
    [op |-> "DrawCylinderMesh", line |-> 1138, tag |-> "Tone arm rest [vertical]", vec |-> <<>>],
    [op |-> "SetTransformations", line |-> 1153, tag |-> "", vec |-> <<60, 380, 60, 90000, 0, 90000, 4500, 450, -6500>>],
    [op |-> "SetShaderColor", line |-> 1160, tag |-> "", vec |-> <<385, 385, 385, 1000>>],
    [op |-> "SetShaderMaterial", line |-> 1161, tag |-> "Glossy", vec |-> <<>>],
    [op |-> "DrawCylinderMesh", line |-> 1163, tag |-> "Cuing lever [horizontal]", vec |-> <<>>],
    [op |-> "SetTransformations", line |-> 1178, tag |-> "", vec |-> <<20, 700, 20, 60000, 0, -35000, 4350, 450, -6500>>],
    [op |-> "SetShaderColor", line |-> 1185, tag |-> "", vec |-> <<400, 400, 400, 1000>>],
    [op |-> "SetShaderMaterial", line |-> 1186, tag |-> "Glossy", vec |-> <<>>],
    [op |-> "DrawCylinderMesh", line |-> 1188, tag |-> "Cuing lever [angle]", vec |-> <<>>],
    [op |-> "SetTransformations", line |-> 1203, tag |-> "", vec |-> <<60, 200, 60, 60000, 0, -35000, 4670, 680, -6100>>],
    [op |-> "SetShaderColor", line |-> 1210, tag |-> "", vec |-> <<385, 385, 385, 1000>>],
    [op |-> "SetShaderMaterial", line |-> 1211, tag |-> "Glossy", vec |-> <<>>],
    [op |-> "DrawCylinderMesh", line |-> 1213, tag |-> "Cuing lever [handle]", vec |-> <<>>],
    [op |-> "SetTransformations", line |-> 1228, tag |-> "", vec |-> <<400, 600, 150, 90000, 0, 0, 3800, 1000, -1000>>],
    [op |-> "SetShaderColor", line |-> 1235, tag |-> "", vec |-> <<300, 300, 300, 1000>>],
    [op |-> "SetShaderMaterial", line |-> 1236, tag |-> "Glossy", vec |-> <<>>],
    [op |-> "DrawBoxMesh", line |-> 1238, tag |-> "Cartridge", vec |-> <<>>],
    [op |-> "SetTransformations", line |-> 1253, tag |-> "", vec |-> <<50, 900, 100, 0, -40000, -90000, 3660, 1100, -1100>>],
    [op |-> "SetShaderColor", line |-> 1260, tag |-> "", vec |-> <<400, 400, 400, 1000>>],
    [op |-> "SetShaderMaterial", line |-> 1261, tag |-> "Glossy", vec |-> <<>>],
    [op |-> "DrawConeMesh", line |-> 1263, tag |-> "Cartridge handle", vec |-> <<>>],
    [op |-> "SetTransformations", line |-> 1278, tag |-> "", vec |-> <<40, 40, 40, 90000, 0, 0, 3720, 1145, -1050>>],
    [op |-> "SetShaderColor", line |-> 1285, tag |-> "", vec |-> <<900, 900, 900, 1000>>],
    [op |-> "DrawTorusMesh", line |-> 1288, tag |-> "Handle rivet [left]", vec |-> <<>>],
    [op |-> "SetTransformations", line |-> 1303, tag |-> "", vec |-> <<40, 40, 40, 90000, 0, 0, 3920, 1130, -890>>],
    [op |-> "SetShaderColor", line |-> 1310, tag |-> "", vec |-> <<900, 900, 900, 1000>>],
    [op |-> "DrawTorusMesh", line |-> 1313, tag |-> "Handle rivet [right]", vec |-> <<>>],
    [op |-> "SetTransformations", line |-> 1328, tag |-> "", vec |-> <<100, 400, 50, -83000, 0, -22000, 3700, 880, -600>>],
    [op |-> "SetShaderColor", line |-> 1335, tag |-> "", vec |-> <<400, 400, 400, 1000>>],
    [op |-> "DrawConeMesh", line |-> 1338, tag |-> "Styulis", vec |-> <<>>],
    [op |-> "SetTransformations", line |-> 1353, tag |-> "", vec |-> <<30, 100, 50, 0, 0, 180000, 3710, 870, -640>>],
    [op |-> "SetShaderColor", line |-> 1360, tag |-> "", vec |-> <<400, 400, 400, 1000>>],
    [op |-> "DrawConeMesh", line |-> 1363, tag |-> "Needle", vec |-> <<>>],
    [op |-> "SetTransformations", line |-> 1378, tag |-> "", vec |-> <<14000, 100, 10000, 90000, 0, 0, 0, 5500, -11720>>],
    [op |-> "SetShaderColor", line |-> 1385, tag |-> "", vec |-> <<1000, 1000, 1000, 550>>],
    [op |-> "SetShaderTexture", line |-> 1386, tag |-> "Glass2", vec |-> <<>>],
    [op |-> "SetShaderMaterial", line |-> 1387, tag |-> "Glass2", vec |-> <<>>],
    [op |-> "DrawBoxMesh", line |-> 1388, tag |-> "Lid cover [rear]", vec |-> <<>>],
    [op |-> "SetTransformations", line |-> 1403, tag |-> "", vec |-> <<100, 1700, 10000, 90000, 0, 0, -7000, 5500, -10920>>],
    [op |-> "SetShaderColor", line |-> 1410, tag |-> "", vec |-> <<1000, 1000, 1000, 550>>],
    [op |-> "SetShaderTexture", line |-> 1411, tag |-> "Glass2", vec |-> <<>>],
    [op |-> "SetShaderMaterial", line |-> 1412, tag |-> "Glass2", vec |-> <<>>],
    [op |-> "DrawBoxMesh", line |-> 1413, tag |-> "Lid [left panel]", vec |-> <<>>],
    [op |-> "SetTransformations", line |-> 1428, tag |-> "", vec |-> <<100, 1700, 10000, 90000, 0, 0, 7000, 5500, -10920>>],
    [op |-> "SetShaderColor", line |-> 1435, tag |-> "", vec |-> <<1000, 1000, 1000, 550>>],
    [op |-> "SetShaderTexture", line |-> 1436, tag |-> "Glass2", vec |-> <<>>],
    [op |-> "SetShaderMaterial", line |-> 1437, tag |-> "Glass2", vec |-> <<>>],
    [op |-> "DrawBoxMesh", line |-> 1438, tag |-> "Lid [right panel]", vec |-> <<>>],
    [op |-> "SetTransformations", line |-> 1453, tag |-> "", vec |-> <<100, 1700, 14000, 0, 90000, 90000, 0, 10500, -10920>>],
    [op |-> "SetShaderColor", line |-> 1460, tag |-> "", vec |-> <<1000, 1000, 1000, 550>>],
    [op |-> "SetShaderTexture", line |-> 1461, tag |-> "Glass2", vec |-> <<>>],
    [op |-> "SetShaderMaterial", line |-> 1462, tag |-> "Glass2", vec |-> <<>>],
    [op |-> "DrawBoxMesh", line |-> 1463, tag |-> "Lid [top panel]", vec |-> <<>>],
    [op |-> "SetTransformations", line |-> 1478, tag |-> "", vec |-> <<100, 1700, 14000, 0, 90000, 90000, 0, 490, -10920>>],
    [op |-> "SetShaderColor", line |-> 1485, tag |-> "", vec |-> <<1000, 1000, 1000, 550>>],
    [op |-> "SetShaderTexture", line |-> 1486, tag |-> "Glass2", vec |-> <<>>],
    [op |-> "SetShaderMaterial", line |-> 1487, tag |-> "Glass2", vec |-> <<>>],
    [op |-> "DrawBoxMesh", line |-> 1488, tag |-> "Lid [bottom panel]", vec |-> <<>>],
    [op |-> "SetTransformations", line |-> 1503, tag |-> "", vec |-> <<80, 800, 80, 0, 0, 90000, -5370, 340, -10010>>],
    [op |-> "SetShaderColor", line |-> 1510, tag |-> "", vec |-> <<1000, 1000, 1000, 1000>>],
    [op |-> "SetShaderTexture", line |-> 1511, tag |-> "Chrome", vec |-> <<>>],
    [op |-> "SetShaderMaterial", line |-> 1512, tag |-> "Glossy", vec |-> <<>>],
    [op |-> "DrawCylinderMesh", line |-> 1513, tag |-> "Left lid handle [horizontal]", vec |-> <<>>],
    [op |-> "SetTransformations", line |-> 1528, tag |-> "", vec |-> <<80, 800, 80, 90000, 0, 0, -6100, 340, -10800>>],
    [op |-> "SetShaderColor", line |-> 1535, tag |-> "", vec |-> <<1000, 1000, 1000, 1000>>],
    [op |-> "SetShaderTexture", line |-> 1536, tag |-> "Chrome", vec |-> <<>>],
    [op |-> "DrawCylinderMesh", line |-> 1537, tag |-> "Left lid handle [Vertical]", vec |-> <<>>],
    [op |-> "SetTransformations", line |-> 1552, tag |-> "", vec |-> <<80, 800, 80, 0, 0, 90000, 6080, 340, -10010>>],
    [op |-> "SetShaderColor", line |-> 1559, tag |-> "", vec |-> <<1000, 1000, 1000, 1000>>],
    [op |-> "SetShaderTexture", line |-> 1560, tag |-> "Chrome", vec |-> <<>>],
    [op |-> "SetShaderMaterial", line |-> 1561, tag |-> "Glossy", vec |-> <<>>],
    [op |-> "DrawCylinderMesh", line |-> 1562, tag |-> "Right lid handle [horizontal]", vec |-> <<>>],
    [op |-> "SetTransformations", line |-> 1577, tag |-> "", vec |-> <<80, 800, 80, 90000, 0, 0, 6000, 340, -10800>>],
    [op |-> "SetShaderColor", line |-> 1584, tag |-> "", vec |-> <<1000, 1000, 1000, 1000>>],
    [op |-> "SetShaderTexture", line |-> 1585, tag |-> "Chrome", vec |-> <<>>],
    [op |-> "DrawCylinderMesh", line |-> 1586, tag |-> "Right lid handle [Vertical]", vec |-> <<>>],
    [op |-> "SetTransformations", line |-> 1607, tag |-> "", vec |-> <<9500, 9500, 200, -10000, 0, 0, -100, 4940, -10600>>],
    [op |-> "SetShaderColor", line |-> 1614, tag |-> "", vec |-> <<0, 0, 0, 1000>>],
    [op |-> "DrawBoxMesh", line |-> 1615, tag |-> "Album shape", vec |-> <<>>],
    [op |-> "SetTransformations", line |-> 1629, tag |-> "", vec |-> <<4700, 3400, 4700, 80000, 0, 0, -100, 4940, -10470>>],
    [op |-> "SetShaderTexture", line |-> 1637, tag |-> "Front Cover", vec |-> <<>>],
    [op |-> "SetShaderMaterial", line |-> 1638, tag |-> "Glossy", vec |-> <<>>],
    [op |-> "DrawPlaneMesh", line |-> 1639, tag |-> "Front Album Cover", vec |-> <<>>],
    [op |-> "SetTransformations", line |-> 1653, tag |-> "", vec |-> <<4700, 3400, 4700, 80000, 0, 180000, -100, 4940, -10710>>],
    [op |-> "SetShaderColor", line |-> 1660, tag |-> "", vec |-> <<1000, 1000, 1000, 1000>>],
    [op |-> "SetShaderTexture", line |-> 1661, tag |-> "Back Cover", vec |-> <<>>],
    [op |-> "DrawPlaneMesh", line |-> 1662, tag |-> "Rear Album Cover", vec |-> <<>>],
    [op |-> "SetTransformations", line |-> 1683, tag |-> "", vec |-> <<2000, 700, 2000, 0, 0, 0, -10500, -400, -9000>>],
    [op |-> "SetShaderTexture", line |-> 1691, tag |-> "Brass", vec |-> <<>>],
    [op |-> "SetShaderMaterial", line |-> 1692, tag |-> "Glossy", vec |-> <<>>],
    [op |-> "DrawHalfSphereMesh", line |-> 1693, tag |-> "Lamp base", vec |-> <<>>],
    [op |-> "SetTransformations", line |-> 1707, tag |-> "", vec |-> <<150, 4600, 150, 0, -20000, 15000, -10500, 0, -9000>>],
    [op |-> "SetShaderTexture", line |-> 1715, tag |-> "Brass", vec |-> <<>>],
    [op |-> "SetShaderMaterial", line |-> 1716, tag |-> "Glossy", vec |-> <<>>],
    [op |-> "DrawCylinderMesh", line |-> 1717, tag |-> "Lamp stand [lower]", vec |-> <<>>],
    [op |-> "SetTransformations", line |-> 1731, tag |-> "", vec |-> <<400, 400, 200, 0, -35000, 0, -11600, 4700, -9390>>],
    [op |-> "SetShaderTexture", line |-> 1739, tag |-> "Brass", vec |-> <<>>],
    [op |-> "SetShaderMaterial", line |-> 1740, tag |-> "Glossy", vec |-> <<>>],
    [op |-> "DrawSphereMesh", line |-> 1741, tag |-> "Lamp joint [lower]", vec |-> <<>>],
    [op |-> "SetTransformations", line |-> 1755, tag |-> "", vec |-> <<150, 4600, 150, 20000, 0, -20000, -11600, 4800, -9380>>],
    [op |-> "SetShaderTexture", line |-> 1763, tag |-> "Brass", vec |-> <<>>],
    [op |-> "SetShaderMaterial", line |-> 1764, tag |-> "Glossy", vec |-> <<>>],
    [op |-> "DrawCylinderMesh", line |-> 1765, tag |-> "Lamp stand [upper]", vec |-> <<>>],
    [op |-> "SetTransformations", line |-> 1779, tag |-> "", vec |-> <<1500, 3100, 1500, 10000, -19000, 48000, -7900, 8200, -7200>>],
    [op |-> "SetShaderColor", line |-> 1786, tag |-> "", vec |-> <<1000, 1000, 1000, 1000>>],
    [op |-> "SetShaderTexture", line |-> 1787, tag |-> "Modern", vec |-> <<>>],
    [op |-> "SetShaderMaterial", line |-> 1788, tag |-> "Glossy", vec |-> <<>>],
    [op |-> "DrawHalfSphereMesh", line |-> 1789, tag |-> "Lamp shade", vec |-> <<>>],
    [op |-> "SetTransformations", line |-> 1803, tag |-> "", vec |-> <<400, 400, 200, 0, -30000, 0, -9900, 9200, -7800>>],
    [op |-> "SetShaderMaterial", line |-> 1811, tag |-> "Brass", vec |-> <<>>],
    [op |-> "SetShaderTexture", line |-> 1812, tag |-> "Glossy3", vec |-> <<>>],
    [op |-> "DrawSphereMesh", line |-> 1813, tag |-> "Lamp joint [upper]", vec |-> <<>>]
  >>

\* The mesh each draw entry point draws
MeshOfDraw ==
  [DrawPlaneMesh |-> "PlaneMesh", DrawBoxMesh |-> "BoxMesh",
   DrawCylinderMesh |-> "CylinderMesh", DrawSphereMesh |-> "SphereMesh",
   DrawHalfSphereMesh |-> "HalfSphereMesh", DrawTorusMesh |-> "TorusMesh",
   DrawConeMesh |-> "ConeMesh"]

\* The setter calls one call of RenderScene makes through a shader manager that
\* is not NULL; material is the indeterminate local of SetShaderMaterial
CallWrites(call, material) ==
  IF call.op = "SetTransformations"
    THEN << <<"model", ModelView(SubSeq(call.vec, 1, 3), call.vec[4], call.vec[5],
                                 call.vec[6], SubSeq(call.vec, 7, 9))>> >>
  ELSE IF call.op = "SetShaderColor"
    THEN << <<"bUseTexture", 0>>, <<"objectColor", call.vec>> >>
  ELSE IF call.op = "SetShaderTexture"
    THEN SetShaderTextureWrites(FindTextureSlot(m_textureIDs, m_loadedTextures, call.tag))
  ELSE IF call.op = "SetShaderMaterial" /\ Len(m_objectMaterials) > 0
    THEN MaterialWrites(FindMaterial(m_objectMaterials, call.tag, material).material)
  ELSE <<>>

RECURSIVE RenderSceneWrites(_, _, _)
\* the setter calls of the calls lo .. hi of RenderScene, in order
RenderSceneWrites(lo, hi, material) ==
  IF lo > hi THEN <<>>
  ELSE IF lo = hi THEN CallWrites(RenderSceneCalls[lo], material)
  ELSE RenderSceneWrites(lo, (lo + hi) \div 2, material)
       \o RenderSceneWrites((lo + hi) \div 2 + 1, hi, material)

\* The uniform state after the setter calls ws: every uniform holds the value
\* of the last call that set it
LastWrites(u, ws) ==
  [n \in DOMAIN u |->
     LET K == {j \in 1 .. Len(ws) : ws[j][1] = n} IN
     IF K = {} THEN u[n] ELSE <<ws[CHOOSE j \in K : \A l \in K : l <= j][2]>>]

\* void SceneManager::RenderScene(), from call to return.  With no shader
\* manager the guarded setters do nothing and the first SetShaderMaterial that
\* finds a material dereferences NULL.  The one SetShaderMaterial call whose
\* tag is no preset is the last (line 1811): one indeterminate local is read.
RenderScene ==
  /\ IF m_pShaderManager = "NULL"
       THEN /\ written' = <<>>
            /\ nullDeref' = (Len(m_objectMaterials) > 0)
            /\ UNCHANGED uniforms
       ELSE \E material \in IndeterminateMaterials :
              LET ws == RenderSceneWrites(1, Len(RenderSceneCalls), material) IN
              /\ written' = ws
              /\ uniforms' = LastWrites(uniforms, ws)
              /\ UNCHANGED nullDeref
  /\ lastCall' = [op |-> "RenderScene", tag |-> "", ret |-> 0, ch |-> 0]
  /\ UNCHANGED <<m_pShaderManager, registryVars, m_objectMaterials, glVars,
                 stbiVars, calls, oobWrite>>

\* CreateGLTexture calls explored by the lifetime specification
MaxLifetimeCalls == 2

\* Tags and decoded channel counts of those calls: a tag can be registered
\* twice, a file can fail to decode or have an unsupported channel count
LifetimeTagPool == {"Wood", "Glass"}
LifetimeChannelPool == {0, 1, 3}

LifetimeCreateGLTextureCall ==
  /\ Alive
  /\ Len(calls) < MaxLifetimeCalls
  /\ \E tag \in LifetimeTagPool, ch \in LifetimeChannelPool : CreateGLTexture(tag, ch)
  /\ UNCHANGED sceneVars

RenderSceneCall == Alive /\ RenderScene /\ UNCHANGED sceneVars

\* No call made yet for the next part; a part without SetShaderColor has no
\* colour alpha below 1
NewPart == [transforms |-> 0, fills |-> 0, materials |-> 0, alpha |-> 1000]

\* The uniforms a draw call reads: the model matrix, the fill and the material
DrawUniforms ==
  [n \in {"model", "bUseTexture", "objectColor", "objectTexture"} \cup MaterialUniforms |->
     uniforms[n]]

\* The call the walk is about to make
CurrentCall ==
  IF pc[1] = "PrepareScene" THEN PrepareSceneCalls[pc[2]]
  ELSE IF pc[1] = "RenderScene" THEN RenderSceneCalls[pc[2]]
  ELSE [op |-> "none", line |-> 0, tag |-> "", vec |-> <<>>]

\* Mutant: the statement after a draw call is stepped over
AdvanceOverNextStatement ==
  IF pc[1] = "PrepareScene"
    THEN /\ pc' = IF pc[2] < Len(PrepareSceneCalls)
                    THEN <<"PrepareScene", pc[2] + 1>> ELSE <<"Idle", 0>>
         /\ UNCHANGED frame
    ELSE IF pc[2] < Len(RenderSceneCalls)
      THEN /\ pc' = IF RenderSceneCalls[pc[2]].op \in DOMAIN MeshOfDraw
                      THEN <<"RenderScene", pc[2] + 2>>
                      ELSE <<"RenderScene", pc[2] + 1>>
           /\ UNCHANGED frame
      ELSE pc' = <<"Idle", 0>> /\ frame' = frame + 1

\* Return from the current call; the last call of a method returns to the
\* caller, which may call RenderScene again
Advance ==
  IF pc[1] = "PrepareScene"
    THEN /\ pc' = IF pc[2] < Len(PrepareSceneCalls)
                    THEN <<"PrepareScene", pc[2] + 1>> ELSE <<"Idle", 0>>
         /\ UNCHANGED frame
    ELSE IF pc[2] < Len(RenderSceneCalls)
      THEN pc' = <<"RenderScene", pc[2] + 1>> /\ UNCHANGED frame
      ELSE pc' = <<"Idle", 0>> /\ frame' = frame + 1

\* Calls so far whose file did not decode as a 3-channel image
OddFiles == Cardinality({i \in 1 .. Len(calls) : calls[i].ch # 3})

SceneCreateGLTexture ==
  /\ Alive
  /\ CurrentCall.op = "CreateGLTexture"
  /\ \E ch \in {3} \cup (IF OddFiles < MaxOddFiles THEN ChannelPool ELSE {}) :
       CreateGLTexture(CurrentCall.tag, ch)
  /\ Advance
  /\ UNCHANGED <<meshes, bindCalls, drawCalls, part, transparentDrawn, firstFrame>>

SceneBindGLTextures ==
  /\ Alive
  /\ CurrentCall.op = "BindGLTextures"
  /\ BindGLTextures
  /\ bindCalls' = bindCalls + 1
  /\ Advance
  /\ UNCHANGED <<meshes, drawCalls, part, transparentDrawn, firstFrame>>

SceneDefineObjectMaterials ==
  /\ Alive
  /\ CurrentCall.op = "DefineObjectMaterials"
  /\ DefineObjectMaterials
  /\ Advance
  /\ UNCHANGED <<meshes, bindCalls, drawCalls, part, transparentDrawn, firstFrame>>

SceneSetupSceneLights ==
  /\ Alive
  /\ CurrentCall.op = "SetupSceneLights"
  /\ SetupSceneLights
  /\ Advance
  /\ UNCHANGED <<meshes, bindCalls, drawCalls, part, transparentDrawn, firstFrame>>

\* m_basicMeshes->Load...Mesh()
SceneLoadMesh ==
  /\ Alive
  /\ CurrentCall.op = "LoadMesh"
  /\ meshes' = meshes \cup {CurrentCall.tag}
  /\ lastCall' = [op |-> "LoadMesh", tag |-> CurrentCall.tag, ret |-> 0, ch |-> 0]
  /\ written' = <<>>
  /\ Advance
  /\ UNCHANGED <<m_pShaderManager, registryVars, m_objectMaterials, glVars,
                 stbiVars, shaderVars, calls, oobWrite, bindCalls, drawCalls,
                 part, transparentDrawn, firstFrame>>

\* PrepareScene calls explored by the setup specification
MaxPrepares == 2

\* The caller calls PrepareScene once more
ScenePrepareAgain ==
  /\ Alive
  /\ pc = <<"Idle", 0>>
  /\ Len(calls) < MaxPrepares * Len(SceneTextures)
  /\ pc' = <<"PrepareScene", 1>>
  /\ lastCall' = [op |-> "PrepareScene", tag |-> "", ret |-> 0, ch |-> 0]
  /\ written' = <<>>
  /\ UNCHANGED <<m_pShaderManager, registryVars, m_objectMaterials, glVars,
                 stbiVars, shaderVars, calls, oobWrite, frame, meshes,
                 bindCalls, drawCalls, part, transparentDrawn, firstFrame>>

\* The main loop calls RenderScene
SceneStartFrame ==
  /\ Alive
  /\ pc = <<"Idle", 0>>
  /\ frame < MaxFrames
  /\ pc' = <<"RenderScene", 1>>
  /\ part' = NewPart
  /\ transparentDrawn' = FALSE
  /\ lastCall' = [op |-> "RenderScene", tag |-> "", ret |-> 0, ch |-> 0]
  /\ written' = <<>>
  /\ UNCHANGED <<m_pShaderManager, registryVars, m_objectMaterials, glVars,
                 stbiVars, shaderVars, calls, oobWrite, frame, meshes,
                 bindCalls, drawCalls, firstFrame>>

SceneSetTransformations ==
  /\ Alive
  /\ CurrentCall.op = "SetTransformations"
  /\ LET v == CurrentCall.vec IN
       SetTransformations(<<v[1], v[2], v[3]>>, v[4], v[5], v[6], <<v[7], v[8], v[9]>>)
  /\ Advance
  /\ part' = [part EXCEPT !.transforms = @ + 1]
  /\ UNCHANGED <<meshes, bindCalls, drawCalls, transparentDrawn, firstFrame>>

SceneSetShaderColor ==
  /\ Alive
  /\ CurrentCall.op = "SetShaderColor"
  /\ SetShaderColor(CurrentCall.vec)
  /\ Advance
  /\ part' = [part EXCEPT !.fills = @ + 1, !.alpha = CurrentCall.vec[4]]
  /\ UNCHANGED <<meshes, bindCalls, drawCalls, transparentDrawn, firstFrame>>

SceneSetShaderTexture ==
  /\ Alive
  /\ CurrentCall.op = "SetShaderTexture"
  /\ SetShaderTexture(CurrentCall.tag)
  /\ Advance
  /\ part' = [part EXCEPT !.fills = @ + 1]
  /\ UNCHANGED <<meshes, bindCalls, drawCalls, transparentDrawn, firstFrame>>

SceneSetShaderMaterial ==
  /\ Alive
  /\ CurrentCall.op = "SetShaderMaterial"
  /\ SetShaderMaterial(CurrentCall.tag)
  /\ Advance
  /\ part' = [part EXCEPT !.materials = @ + 1]
  /\ UNCHANGED <<meshes, bindCalls, drawCalls, transparentDrawn, firstFrame>>

\* m_basicMeshes->Draw...Mesh(): draws with the uniforms that are current
SceneDrawMesh ==
  /\ Alive
  /\ CurrentCall.op \in DOMAIN MeshOfDraw
  /\ lastCall' = [op |-> CurrentCall.op, tag |-> CurrentCall.tag,
                  ret |-> 0, ch |-> 0, loaded |-> MeshOfDraw[CurrentCall.op] \in meshes,
                  part |-> part, afterTransparent |-> transparentDrawn]
  /\ written' = <<>>
  /\ drawCalls' = drawCalls + 1
  /\ transparentDrawn' = (transparentDrawn \/ part.alpha < 1000)
  /\ firstFrame' = IF frame = 0 THEN Append(firstFrame, DrawUniforms) ELSE firstFrame
  /\ part' = NewPart
  /\ Advance
  /\ UNCHANGED <<m_pShaderManager, registryVars, m_objectMaterials, glVars,
                 stbiVars, shaderVars, calls, oobWrite, meshes, bindCalls>>

----------------------------------------------------------------------------
\* Specifications

\* SceneManager::SceneManager(ShaderManager *pShaderManager)
Init ==
  /\ m_pShaderManager \in {"NULL", "shader"}
  /\ m_loadedTextures = 0
  /\ m_textureIDs = [i \in 0 .. MaxTextureSlots - 1 |-> EmptySlot]
  /\ m_objectMaterials = <<>>
  /\ glTextures = <<>>
  /\ glActiveUnit = 0
  /\ glUnits = [u \in 0 .. MaxTextureSlots - 1 |-> 0]
  /\ glDeleted = {}
  /\ stbiFlip = FALSE
  /\ stbiLive = 0
  /\ uniforms = [n \in UniformNames |-> <<>>]
  /\ written = <<>>
  /\ lastCall = NoCall
  /\ calls = <<>>
  /\ oobWrite = FALSE
  /\ nullDeref = FALSE
  /\ pc = <<"PrepareScene", 1>>
  /\ frame = 0
  /\ meshes = {}
  /\ bindCalls = 0
  /\ drawCalls = 0
  /\ part = NewPart
  /\ transparentDrawn = FALSE
  /\ firstFrame = <<>>

\* The texture registry used as a library: any order of its operations
Next ==
  \/ CreateGLTextureCall
  \/ BindGLTexturesCall
  \/ FindTextureIDCall
  \/ FindTextureSlotCall

Spec == Init /\ [][Next]_vars

\* The material registry used as a library
NextMaterials ==
  \/ DefineObjectMaterialsCall
  \/ FindMaterialCall
  \/ SetShaderMaterialCall

SpecMaterials == Init /\ [][NextMaterials]_vars

\* The fill operations over a registry that is being filled
NextShader ==
  \/ ShaderCreateGLTextureCall
  \/ SetShaderTextureCall
  \/ SetShaderColorCall

SpecShader == Init /\ [][NextShader]_vars

\* The operations that use the texture registry between setup and teardown,
\* in any order
NextLifetime ==
  \/ LifetimeCreateGLTextureCall
  \/ BindGLTexturesCall
  \/ FindTextureIDCall
  \/ FindTextureSlotCall
  \/ SetShaderTextureCall
  \/ RenderSceneCall

SpecLifetime == Init /\ [][NextLifetime]_vars

\* Setup of the texture registry followed by its teardown
NextTeardown ==
  \/ TeardownCreateGLTextureCall
  \/ DestroyGLTexturesCall

SpecTeardown == Init /\ [][NextTeardown]_vars

\* SetTransformations called with any arguments, call after call
NextTransform == SetTransformationsCall

SpecTransform == Init /\ [][NextTransform]_vars

\* PrepareScene run more than once
NextSetup ==
  \/ SceneCreateGLTexture
  \/ SceneBindGLTextures
  \/ SceneDefineObjectMaterials
  \/ SceneSetupSceneLights
  \/ SceneLoadMesh
  \/ ScenePrepareAgain

SpecSetup == Init /\ [][NextSetup]_vars

\* PrepareScene once, then RenderScene frame after frame
NextScene ==
  \/ SceneCreateGLTexture
  \/ SceneBindGLTextures
  \/ SceneDefineObjectMaterials
  \/ SceneSetupSceneLights
  \/ SceneLoadMesh
  \/ SceneStartFrame
  \/ SceneSetTransformations
  \/ SceneSetShaderColor
  \/ SceneSetShaderTexture
  \/ SceneSetShaderMaterial
  \/ SceneDrawMesh

SpecScene == Init /\ [][NextScene]_vars

----------------------------------------------------------------------------
\* Texture registry: properties

\* The tags of the registered entries
RegisteredTags == {TextureAt(m_textureIDs, i).tag : i \in 0 .. m_loadedTextures - 1}

\* Every CreateGLTexture call so far had a 3- or 4-channel image and a tag of its own
AllValidDistinct ==
  /\ \A i \in 1 .. Len(calls) : calls[i].ch \in {3, 4}
  /\ \A i, j \in 1 .. Len(calls) : i # j => calls[i].tag # calls[j].tag

\* C1: after CreateGLTexture calls on valid 3- or 4-channel images with pairwise
\* distinct tags, FindTextureSlot(tag) returns the 0-based position of the
\* call that registered the tag.
C1_FindSlotIsRegistrationOrder ==
  (lastCall.op = "FindTextureSlot" /\ AllValidDistinct) =>
    \A i \in 1 .. Len(calls) : calls[i].tag = lastCall.tag => lastCall.ret = i - 1

C1_Witness ==
  /\ lastCall.op = "FindTextureSlot"
  /\ AllValidDistinct
  /\ Len(calls) = 3
  /\ {calls[i].ch : i \in 1 .. Len(calls)} = {3, 4}
  /\ calls[3].tag = lastCall.tag
  /\ lastCall.ret = 2

\* A step that is a CreateGLTexture call
CreateStep == calls' # calls

\* C2: CreateGLTexture on an image whose channel count is neither 3 nor 4
\* returns false and leaves m_loadedTextures and every {tag, id} entry as
\* they were.
C2_UnsupportedChannelsRegisterNothing ==
  [][(CreateStep /\ lastCall'.ch \notin {0, 3, 4}) =>
       (lastCall'.ret = FALSE /\ UNCHANGED registryVars)]_vars

C2_Witness ==
  /\ lastCall.op = "CreateGLTexture"
  /\ lastCall.ch = 1
  /\ lastCall.ret = FALSE
  /\ m_loadedTextures = 2

\* A call at position i of the history that failed to decode a file for a tag
\* that no earlier call had registered
FailedWhileAbsent(i) ==
  /\ calls[i].ch = 0
  /\ \A j \in 1 .. i - 1 : ~(calls[j].tag = calls[i].tag /\ calls[j].ret)

NotFound(tag) ==
  /\ FindTextureSlot(m_textureIDs, m_loadedTextures, tag) = -1
  /\ FindTextureID(m_textureIDs, m_loadedTextures, tag) = -1

\* C3 as stated: after a failed decode for a tag that was not registered
\* before, every later lookup of the tag returns not found.
C3_Original ==
  \A i \in 1 .. Len(calls) : FailedWhileAbsent(i) => NotFound(calls[i].tag)

\* C3 (amended): a CreateGLTexture call on a file that cannot be decoded
\* returns false and registers nothing; if the tag was not registered before,
\* FindTextureSlot and FindTextureID return not found for it for as long as no
\* later CreateGLTexture call with that tag succeeds.
C3_DecodeFailureRegistersNothing ==
  /\ [][(CreateStep /\ lastCall'.ch = 0) =>
          (lastCall'.ret = FALSE /\ UNCHANGED registryVars)]_vars
  /\ [](\A i \in 1 .. Len(calls) :
          (/\ FailedWhileAbsent(i)
           /\ \A j \in i + 1 .. Len(calls) :
                ~(calls[j].tag = calls[i].tag /\ calls[j].ret))
          => NotFound(calls[i].tag))

C3_Witness ==
  /\ Len(calls) = 2
  /\ calls[1].ch = 0
  /\ calls[2].ret
  /\ calls[2].tag # calls[1].tag
  /\ lastCall.op = "FindTextureID"
  /\ lastCall.tag = calls[1].tag
  /\ lastCall.ret = -1

\* C4: FindTextureSlot and FindTextureID return -1 exactly when no registered
\* entry carries the queried tag.
C4_SentinelIffAbsent ==
  lastCall.op \in {"FindTextureSlot", "FindTextureID"} =>
    (lastCall.ret = -1 <=> lastCall.tag \notin RegisteredTags)

C4_Witness ==
  /\ lastCall.op = "FindTextureSlot"
  /\ lastCall.ret = -1
  /\ m_loadedTextures = 2
  /\ lastCall.tag \notin RegisteredTags

\* C9: BindGLTextures leaves texture unit i bound to the id of the i-th
\* registered entry for every i below m_loadedTextures, touches no other
\* unit, and changes neither the entries nor the size of the registry.
C9_BindGLTexturesBindsEveryEntry ==
  [][(lastCall'.op = "BindGLTextures") =>
       (/\ \A i \in 0 .. m_loadedTextures - 1 :
             glUnits'[i] = TextureAt(m_textureIDs, i).ID
        /\ \A u \in DOMAIN glUnits :
             u >= m_loadedTextures => glUnits'[u] = glUnits[u]
        /\ DOMAIN glUnits' = DOMAIN glUnits
        /\ UNCHANGED registryVars)]_vars

C9_Witness ==
  /\ lastCall.op = "BindGLTextures"
  /\ m_loadedTextures = 3
  /\ \A i \in 0 .. 2 : glUnits[i] = m_textureIDs[i].ID /\ glUnits[i] # 0
  /\ glUnits[3] = 0

----------------------------------------------------------------------------
\* Material registry and fill operations: properties

\* The tags of the defined presets
MaterialTags == {m_objectMaterials[i].tag : i \in 1 .. Len(m_objectMaterials)}

\* The five copied fields of a material
MaterialFields(material) ==
  <<material.ambientColor, material.ambientStrength, material.diffuseColor,
    material.specularColor, material.shininess>>

\* C5: on a populated material registry FindMaterial reports found and copies
\* out the preset whose tag equals the query when there is one, and reports
\* not found (false) for every tag that is absent.
C5_FindMaterialExactMatch ==
  (lastCall.op = "FindMaterial" /\ Len(m_objectMaterials) > 0) =>
    /\ lastCall.ret = (lastCall.tag \in MaterialTags)
    /\ lastCall.tag \in MaterialTags =>
         \E i \in 1 .. Len(m_objectMaterials) :
           /\ m_objectMaterials[i].tag = lastCall.tag
           /\ MaterialFields(lastCall.out) = MaterialFields(m_objectMaterials[i])

\* C6: on an empty material registry FindMaterial returns false for every tag
\* and leaves the caller's material as it was.
C6_FindMaterialEmptyRegistry ==
  (lastCall.op = "FindMaterial" /\ Len(m_objectMaterials) = 0) =>
    (lastCall.ret = FALSE /\ lastCall.out = lastCall.material)

C6_Witness ==
  /\ lastCall.op = "FindMaterial"
  /\ Len(m_objectMaterials) = 0
  /\ lastCall.ret = FALSE
  /\ lastCall.tag = "Wood"
  /\ lastCall.material = DefinedMaterials[2]
  /\ lastCall.out = DefinedMaterials[2]

\* C7: SetShaderMaterial with a tag that is not in the material registry
\* writes none of the five material uniforms, whether the registry is empty
\* or populated.
C7_MissingMaterialWritesNothing ==
  (lastCall.op = "SetShaderMaterial" /\ lastCall.tag \notin MaterialTags) =>
    \A k \in 1 .. Len(written) : written[k][1] \notin MaterialUniforms

\* C8: SetShaderTexture with a tag whose lookup returns not found skips the
\* binding: it neither sets the sampler uniform to -1 nor enables texturing.
C8_MissingTextureSkipsBinding ==
  (lastCall.op = "SetShaderTexture" /\ lastCall.ret = -1) =>
    \A k \in 1 .. Len(written) :
      /\ written[k] # <<"objectTexture", -1>>
      /\ written[k] # <<"bUseTexture", 1>>

----------------------------------------------------------------------------
\* PrepareScene and RenderScene: properties

\* C10: in PrepareScene followed by RenderScene calls, BindGLTextures is
\* called exactly once, after all CreateGLTexture calls of LoadSceneTextures
\* and before the first draw call, and no CreateGLTexture call follows it.
C10_BindOnceAfterLoadsBeforeDraws ==
  /\ [](bindCalls <= 1)
  /\ [](pc[1] \in {"Idle", "RenderScene"} => bindCalls = 1)
  /\ [][bindCalls' # bindCalls => Len(calls) = Len(SceneTextures)]_vars
  /\ [][CreateStep => bindCalls = 0]_vars
  /\ [][drawCalls' # drawCalls => bindCalls = 1]_vars

C10_Witness ==
  /\ frame = 2
  /\ pc = <<"Idle", 0>>
  /\ bindCalls = 1
  /\ Len(calls) = Len(SceneTextures)
  /\ drawCalls = 96

----------------------------------------------------------------------------
\* Texture registry lifetime: properties

\* C11: the texture registry holds at most one entry per tag: registering a
\* tag that is already registered creates no second entry with that tag.
C11_OneEntryPerTag ==
  \A i, j \in 0 .. m_loadedTextures - 1 :
    i # j => TextureAt(m_textureIDs, i).tag # TextureAt(m_textureIDs, j).tag


\* C12: across CreateGLTexture, BindGLTextures, FindTextureID, FindTextureSlot,
\* SetShaderTexture and RenderScene calls in any order, m_loadedTextures never
\* decreases and no existing entry changes its tag or its id.
C12_RegistryAppendOnly ==
  [][/\ m_loadedTextures' >= m_loadedTextures
     /\ \A i \in 0 .. m_loadedTextures - 1 :
          TextureAt(m_textureIDs', i) = TextureAt(m_textureIDs, i)]_vars

\* RenderScene has run over a registry of two entries with the same tag
C12_Witness ==
  /\ lastCall.op = "RenderScene"
  /\ m_pShaderManager = "shader"
  /\ m_loadedTextures = 2
  /\ TextureAt(m_textureIDs, 0).tag = TextureAt(m_textureIDs, 1).tag
  /\ Len(written) > 0

\* C13: when DestroyGLTextures returns, every texture object that was created
\* for a registered entry has been released and no new texture object has been
\* allocated.
C13_DestroyFreesEveryTexture ==
  lastCall.op = "DestroyGLTextures" =>
    /\ lastCall.registered \subseteq glDeleted
    /\ Len(glTextures) = lastCall.allocated

----------------------------------------------------------------------------
\* Model matrix: properties

\* A point after the matrix M is applied to it
Transform(M, v) ==
  [i \in 1 .. 3 |-> (M[i][1] * v[1] + M[i][2] * v[2] + M[i][3] * v[3] + M[i][4] * 1000) \div 1000]

\* A point after one transformation is applied to it
Scaled(s, v) == [i \in 1 .. 3 |-> (s[i] * v[i]) \div 1000]
Translated(p, v) == [i \in 1 .. 3 |-> v[i] + p[i]]
RotatedX(a, v) ==
  << v[1], (CosOf(a) * v[2] - SinOf(a) * v[3]) \div 1000,
     (SinOf(a) * v[2] + CosOf(a) * v[3]) \div 1000 >>
RotatedY(a, v) ==
  << (CosOf(a) * v[1] + SinOf(a) * v[3]) \div 1000, v[2],
     (CosOf(a) * v[3] - SinOf(a) * v[1]) \div 1000 >>
RotatedZ(a, v) ==
  << (CosOf(a) * v[1] - SinOf(a) * v[2]) \div 1000,
     (SinOf(a) * v[1] + CosOf(a) * v[2]) \div 1000, v[3] >>

\* The origin, the three axes and a point off every axis
TestPoints ==
  {<<0, 0, 0>>, <<1000, 0, 0>>, <<0, 1000, 0>>, <<0, 0, 1000>>, <<1000, 2000, 3000>>}

\* C14: the matrix SetTransformations pushes to the "model" uniform is
\* translation * rotationX * rotationY * rotationZ * scale for every input: it
\* takes a point to where scaling it first, then rotating it about Z, Y and X,
\* and translating it last takes it.
C14_ModelIsTranslateRotateScale ==
  (lastCall.op = "SetTransformations" /\ m_pShaderManager = "shader") =>
    /\ Len(written) = 1
    /\ written[1] = <<"model", uniforms["model"][1]>>
    /\ \A v \in TestPoints :
         Transform(MatrixOf(uniforms["model"][1]), v) =
           Translated(lastCall.args[5],
             RotatedX(lastCall.args[2],
               RotatedY(lastCall.args[3],
                 RotatedZ(lastCall.args[4],
                   Scaled(lastCall.args[1], v)))))

\* A call whose scale, rotation and translation all change the point
C14_Witness ==
  /\ lastCall.op = "SetTransformations"
  /\ m_pShaderManager = "shader"
  /\ lastCall.args = << <<2000, 1000, 3000>>, 90000, -90000, 90000, <<1000, -2000, 3000>> >>
  /\ Transform(MatrixOf(uniforms["model"][1]), <<1000, 2000, 3000>>) # <<1000, 2000, 3000>>

\* C15: with scale (1,1,1), rotations (0,0,0) and translation (0,0,0),
\* SetTransformations pushes the identity matrix as the model matrix.
C15_UnitInputsGiveIdentity ==
  ( /\ lastCall.op = "SetTransformations"
    /\ m_pShaderManager = "shader"
    /\ lastCall.args = << <<1000, 1000, 1000>>, 0, 0, 0, <<0, 0, 0>> >> ) =>
    /\ written = << <<"model", uniforms["model"][1]>> >>
    /\ MatrixOf(uniforms["model"][1]) = Identity

\* The call with unit inputs was made and pushed a matrix
C15_Witness ==
  /\ lastCall.op = "SetTransformations"
  /\ m_pShaderManager = "shader"
  /\ lastCall.args = << <<1000, 1000, 1000>>, 0, 0, 0, <<0, 0, 0>> >>
  /\ MatrixOf(uniforms["model"][1]) = Identity

----------------------------------------------------------------------------
\* Fill and scene walk: properties

\* C16: with a shader manager, after any interleaving of SetShaderColor and
\* SetShaderTexture calls bUseTexture is true exactly when the most recent of
\* them was SetShaderTexture: SetShaderTexture sets it, SetShaderColor clears
\* it, and no other call touches it.
C16_LastFillCallWins ==
  [][m_pShaderManager = "shader" =>
       /\ lastCall'.op = "SetShaderTexture" => uniforms'["bUseTexture"] = <<1>>
       /\ lastCall'.op = "SetShaderColor" => uniforms'["bUseTexture"] = <<0>>
       /\ lastCall'.op \notin {"SetShaderTexture", "SetShaderColor"} =>
            uniforms'["bUseTexture"] = uniforms["bUseTexture"]]_vars

\* SetShaderColor was called after SetShaderTexture, over a registered texture
C16_Witness ==
  /\ m_pShaderManager = "shader"
  /\ lastCall.op = "SetShaderColor"
  /\ uniforms["bUseTexture"] = <<0>>
  /\ uniforms["objectTexture"] = <<0>>
  /\ m_loadedTextures > 0

\* C17: in RenderScene every draw call comes after exactly one
\* SetTransformations call and at least one SetShaderColor or SetShaderTexture
\* call made since the previous draw call or the start of the frame, and no
\* SetShaderMaterial call is left without a draw call after it.
C17_EveryDrawIsSetUp ==
  /\ lastCall.op \in DOMAIN MeshOfDraw =>
       /\ lastCall.part.transforms = 1
       /\ lastCall.part.fills >= 1
  /\ pc = <<"Idle", 0>> => part = NewPart

\* The last part of a frame, which has a material call, has been drawn
C17_Witness ==
  /\ pc = <<"Idle", 0>>
  /\ frame = 1
  /\ lastCall.op = "DrawSphereMesh"
  /\ lastCall.part.materials = 1
  /\ drawCalls = 48

\* C18: in the draw order of RenderScene no part whose colour alpha is 1, or
\* that sets no colour, is drawn after a part whose SetShaderColor alpha is
\* below 1.
C18_TransparentPartsDrawnLast ==
  lastCall.op \in DOMAIN MeshOfDraw =>
    ~(lastCall.afterTransparent /\ lastCall.part.alpha = 1000)

\* C19: every mesh kind RenderScene draws was loaded by PrepareScene through
\* its own load entry point before the first frame.
C19_DrawnMeshesAreLoaded ==
  lastCall.op \in DOMAIN MeshOfDraw => lastCall.loaded

\* C20: once PrepareScene has returned, RenderScene, run any number of times,
\* leaves the texture registry (entries and m_loadedTextures) and the material
\* registry (every preset's fields and the number of presets) unchanged.
C20_RenderSceneKeepsRegistries ==
  [][pc[1] \in {"RenderScene", "Idle"} =>
       /\ m_loadedTextures' = m_loadedTextures
       /\ m_textureIDs' = m_textureIDs
       /\ m_objectMaterials' = m_objectMaterials]_vars

\* RenderScene has run twice over the ten textures and seven presets of the
\* scene
C20_Witness ==
  /\ pc = <<"Idle", 0>>
  /\ frame = 2
  /\ m_loadedTextures = 10
  /\ Len(m_objectMaterials) = 7

----------------------------------------------------------------------------
\* Texture slots and scene tags: properties

\* C21: after any sequence of CreateGLTexture calls, PrepareScene run more
\* than once included, at most 16 textures are registered and no entry has
\* been written at index 16 or above.
C21_AtMostSixteenTextures ==
  /\ m_loadedTextures <= MaxTextureSlots
  /\ ~oobWrite

\* The tags LoadSceneTextures registers and the tags DefineObjectMaterials
\* defines
SceneTextureTags == {SceneTextures[i].tag : i \in 1 .. Len(SceneTextures)}
PresetTags == {DefinedMaterials[i].tag : i \in 1 .. Len(DefinedMaterials)}

\* Every CreateGLTexture call so far returned true
AllFilesLoaded == \A i \in 1 .. Len(calls) : calls[i].ret

\* C22: every tag RenderScene passes to SetShaderTexture is a tag
\* LoadSceneTextures registers, and when all image files load no
\* SetShaderTexture call of the scene gets the not-found slot -1.
C22_SceneTexturesAreRegistered ==
  lastCall.op = "SetShaderTexture" =>
    /\ lastCall.tag \in SceneTextureTags
    /\ AllFilesLoaded => lastCall.ret # -1

\* C23: every tag RenderScene passes to SetShaderMaterial is a tag
\* DefineObjectMaterials defines, and every material pushed to the shader
\* during a frame is one of the defined presets.
C23_SceneMaterialsAreDefined ==
  lastCall.op = "SetShaderMaterial" =>
    /\ lastCall.tag \in PresetTags
    /\ \E i \in 1 .. Len(DefinedMaterials) : written = MaterialWrites(DefinedMaterials[i])

\* C24: for every tag and every registry state FindTextureID and
\* FindTextureSlot agree: both return -1, or FindTextureID returns the id
\* stored at the index FindTextureSlot returns, which is the earliest entry
\* with that tag.
C24_FindIDAgreesWithFindSlot ==
  /\ \A tag \in TagPool :
       LET id == FindTextureID(m_textureIDs, m_loadedTextures, tag)
           slot == FindTextureSlot(m_textureIDs, m_loadedTextures, tag) IN
       \/ id = -1 /\ slot = -1
       \/ /\ slot \in 0 .. m_loadedTextures - 1
          /\ id = TextureAt(m_textureIDs, slot).ID
          /\ TextureAt(m_textureIDs, slot).tag = tag
          /\ \A j \in 0 .. slot - 1 : TextureAt(m_textureIDs, j).tag # tag
  /\ lastCall.op = "FindTextureID" =>
       LET slot == FindTextureSlot(m_textureIDs, m_loadedTextures, lastCall.tag) IN
       lastCall.ret = IF slot = -1 THEN -1 ELSE TextureAt(m_textureIDs, slot).ID

\* FindTextureID was called with a tag registered twice, after another tag
C24_Witness ==
  /\ lastCall.op = "FindTextureID"
  /\ lastCall.tag = "Glass"
  /\ m_loadedTextures = 3
  /\ TextureAt(m_textureIDs, 0).tag = "Wood"
  /\ TextureAt(m_textureIDs, 1).tag = "Glass"
  /\ TextureAt(m_textureIDs, 2).tag = "Glass"
  /\ lastCall.ret = TextureAt(m_textureIDs, 1).ID
  /\ lastCall.ret # TextureAt(m_textureIDs, 2).ID

----------------------------------------------------------------------------
\* Resources and the shader manager: properties

\* C25: a CreateGLTexture call that decoded an image has freed the decoded
\* pixel buffer when it returns, whether it returns true or fails on an
\* unsupported channel count.
C25_DecodedImageIsFreed ==
  (lastCall.op = "CreateGLTexture" /\ lastCall.ch # 0) => stbiLive = 0

\* C26: when CreateGLTexture returns, the 2D texture binding is 0 and every
\* allocated texture object is recorded in the registry; a call that returns
\* false has allocated no lasting texture object.
C26_CreateLeavesNoStrayTexture ==
  lastCall.op = "CreateGLTexture" =>
    /\ glUnits[glActiveUnit] = 0
    /\ \A n \in 1 .. Len(glTextures) :
         \/ n \in glDeleted
         \/ \E i \in 0 .. m_loadedTextures - 1 : TextureAt(m_textureIDs, i).ID = n

\* C27: with a null shader manager every uniform-writing operation is a
\* no-op: no uniform is written and the shader manager is never dereferenced.
C27_NullShaderManagerIsNoOp ==
  m_pShaderManager = "NULL" =>
    /\ ~nullDeref
    /\ written = <<>>
    /\ \A n \in DOMAIN uniforms : uniforms[n] = <<>>

\* C28: for every part, the uniforms current at its draw call (model matrix,
\* bUseTexture, objectColor, objectTexture and the five material uniforms) are
\* the same in every later frame as in the first frame after PrepareScene.
C28_FramesAreRepeatable ==
  (lastCall.op \in DOMAIN MeshOfDraw /\ drawCalls > Len(firstFrame)) =>
    DrawUniforms = firstFrame[((drawCalls - 1) % Len(firstFrame)) + 1]

====
